---- MODULE Spec2Model ----
(***************************************************************************)
(* The synchronization engine of the dnote command line client             *)
(* (src/cmd/sync/sync.go): the local store inside one transaction, the     *)
(* sync-list assembler, the merge engine, the push engine and the          *)
(* orchestrator, run against a server that stamps every change with the    *)
(* next update sequence number (USN) and against other clients that write  *)
(* to the same server between any two calls of a sync.                     *)
(*                                                                         *)
(* Conventions.  A uuid is an integer: uuids made by the local client are  *)
(* negative, a uuid assigned by the server is the USN of the creation.     *)
(* A book label is a sequence of numbers: <<1>> is a base label "L", and   *)
(* Append(l, i) is the label fmt.Sprintf("%s (%d)", l, i).  Note bodies    *)
(* and book labels travel and rest on the server as ciphertexts.           *)
(***************************************************************************)
EXTENDS Integers, Sequences, FiniteSets, TLC

\* ------------------------------------------------------------------ bounds
\* the server's USN counter never goes past MaxUSN
MaxUSN == 4
\* sync runs started in one behaviour
MaxSyncs == 2
\* local commands (add, edit, remove) run in one behaviour
MaxEdits == 2
\* writes of other clients to the server in one behaviour
MaxOther == 2
\* items in one sync fragment
PageLimit == 2

\* modeInsert, modeUpdate
modeInsert == 0
modeUpdate == 1

Labels == {<<1>>, <<1, 2>>}
Bodies == {"x", "y"}
\* the body a new note starts with
FirstBody == "x"

\* ------------------------------------------------------------- encryption
\* crypt.AesGcmEncrypt / AesGcmDecrypt: a ciphertext either authenticates and
\* yields its plaintext, or it is rejected.
Encrypt(p) == [ok |-> TRUE, plain |-> p]
Corrupt(p) == [ok |-> FALSE, plain |-> p]
DecryptOk(c) == c.ok
Decrypt(c) == c.plain

\* ------------------------------------------------------------ small helpers
Max(S) == CHOOSE x \in S : \A y \in S : y <= x
Max0(S) == IF S = {} THEN 0 ELSE Max(S)

\* ------------------------------------------------------------- local store
\* a store is [books, notes, lastMaxUSN, lastSyncAt, err]; err is set when a
\* statement on the transaction has returned an error
EmptyStore ==
    [books |-> {}, notes |-> {}, lastMaxUSN |-> 0, lastSyncAt |-> 0, err |-> FALSE]

NewBook(uuid, label, usn, deleted, dirty) ==
    [uuid |-> uuid, label |-> label, usn |-> usn, dirty |-> dirty, deleted |-> deleted]

NewNote(uuid, bookUUID, body, usn, deleted, dirty) ==
    [uuid |-> uuid, book_uuid |-> bookUUID, body |-> body, usn |-> usn,
     dirty |-> dirty, deleted |-> deleted]

Fail(db) == [db EXCEPT !.err = TRUE]

\* SELECT count(*) FROM books WHERE label = ?
CountLabel(db, label) == Cardinality({b \in db.books : b.label = label})

\* ------------------------------------------------------------ merge engine
resolveLabel(db, label) ==
    LET free(i) == CountLabel(db, Append(label, i)) = 0
        top == Cardinality(db.books) + 2
        i == CHOOSE k \in 2..top : free(k) /\ \A j \in 2..(k - 1) : ~free(j)
    IN  Append(label, i)

\* mergeBook without the renaming of local books under the server's label
mergeBookNoRename(db, b, mode) ==
    IF mode = modeInsert
    THEN [db EXCEPT !.books =
             @ \cup {NewBook(b.uuid, b.label, b.usn, FALSE, FALSE)}]
    ELSE [db EXCEPT !.books =
             {IF x.uuid = b.uuid
              THEN [x EXCEPT !.usn = b.usn, !.label = b.label,
                             !.deleted = b.deleted]
              ELSE x : x \in @}]

\* mergeBook renaming the local books under the server's label without marking
\* them dirty
mergeBookRenameClean(db, b, mode) ==
    LET count == CountLabel(db, b.label)
        newLabel == resolveLabel(db, b.label)
        renamed ==
            IF count > 0
            THEN {IF x.label = b.label
                  THEN [x EXCEPT !.label = newLabel]
                  ELSE x : x \in db.books}
            ELSE db.books
    IN  IF mode = modeInsert
        THEN [db EXCEPT !.books =
                 renamed \cup {NewBook(b.uuid, b.label, b.usn, FALSE, FALSE)}]
        ELSE [db EXCEPT !.books =
                 {IF x.uuid = b.uuid
                  THEN [x EXCEPT !.usn = b.usn, !.label = b.label,
                                 !.deleted = b.deleted]
                  ELSE x : x \in renamed}]

mergeBook(db, b, mode) ==
    LET count == CountLabel(db, b.label)
        newLabel == resolveLabel(db, b.label)
        renamed ==
            IF count > 0
            THEN {IF x.label = b.label
                  THEN [x EXCEPT !.label = newLabel, !.dirty = TRUE]
                  ELSE x : x \in db.books}
            ELSE db.books
    IN  IF mode = modeInsert
        THEN [db EXCEPT !.books =
                 renamed \cup {NewBook(b.uuid, b.label, b.usn, FALSE, FALSE)}]
        ELSE [db EXCEPT !.books =
                 {IF x.uuid = b.uuid
                  THEN [x EXCEPT !.usn = b.usn, !.label = b.label,
                                 !.deleted = b.deleted]
                  ELSE x : x \in renamed}]

stepSyncBook(db, b) ==
    IF db.err THEN db
    ELSE IF \A x \in db.books : x.uuid # b.uuid
    THEN mergeBook(db, b, modeInsert)
    ELSE mergeBook(db, b, modeUpdate)

fullSyncBook(db, b) ==
    IF db.err THEN db
    ELSE IF \A x \in db.books : x.uuid # b.uuid
    THEN mergeBook(db, b, modeInsert)
    ELSE LET local == CHOOSE x \in db.books : x.uuid = b.uuid
         IN  IF b.usn > local.usn THEN mergeBook(db, b, modeUpdate) ELSE db

\* mergeNote without the look at the book of the local note
mergeNoteAnyBook(db, serverNote, localNote) ==
    IF localNote.deleted
    THEN [db EXCEPT !.notes =
             {IF n.uuid = serverNote.uuid
              THEN [n EXCEPT !.usn = serverNote.usn,
                             !.book_uuid = serverNote.book_uuid,
                             !.body = serverNote.body,
                             !.deleted = serverNote.deleted,
                             !.dirty = FALSE]
              ELSE n : n \in db.notes}]
    ELSE [db EXCEPT !.notes =
             {IF n.uuid = serverNote.uuid
              THEN [n EXCEPT !.usn = serverNote.usn,
                             !.book_uuid = serverNote.book_uuid,
                             !.body = serverNote.body,
                             !.deleted = serverNote.deleted]
              ELSE n : n \in db.notes}]

mergeNote(db, serverNote, localNote) ==
    LET owners == {x \in db.books : x.uuid = localNote.book_uuid}
    IN  IF owners = {} THEN Fail(db)
        ELSE IF (CHOOSE x \in owners : TRUE).deleted THEN db
        ELSE IF localNote.deleted
        THEN [db EXCEPT !.notes =
                 {IF n.uuid = serverNote.uuid
                  THEN [n EXCEPT !.usn = serverNote.usn,
                                 !.book_uuid = serverNote.book_uuid,
                                 !.body = serverNote.body,
                                 !.deleted = serverNote.deleted,
                                 !.dirty = FALSE]
                  ELSE n : n \in db.notes}]
        ELSE [db EXCEPT !.notes =
                 {IF n.uuid = serverNote.uuid
                  THEN [n EXCEPT !.usn = serverNote.usn,
                                 !.book_uuid = serverNote.book_uuid,
                                 !.body = serverNote.body,
                                 !.deleted = serverNote.deleted]
                  ELSE n : n \in db.notes}]

stepSyncNote(db, n) ==
    IF db.err THEN db
    ELSE IF \A x \in db.notes : x.uuid # n.uuid
    THEN [db EXCEPT !.notes =
             @ \cup {NewNote(n.uuid, n.book_uuid, n.body, n.usn, n.deleted, FALSE)}]
    ELSE mergeNote(db, n, CHOOSE x \in db.notes : x.uuid = n.uuid)

fullSyncNote(db, n) ==
    IF db.err THEN db
    ELSE IF \A x \in db.notes : x.uuid # n.uuid
    THEN [db EXCEPT !.notes =
             @ \cup {NewNote(n.uuid, n.book_uuid, n.body, n.usn, n.deleted, FALSE)}]
    ELSE LET local == CHOOSE x \in db.notes : x.uuid = n.uuid
         IN  IF n.usn > local.usn THEN mergeNote(db, n, local) ELSE db

\* syncDeleteNote deleting the note whether it is dirty or not
syncDeleteNoteDirtyToo(db, noteUUID) ==
    IF db.err THEN db
    ELSE [db EXCEPT !.notes = {n \in @ : n.uuid # noteUUID}]

syncDeleteNote(db, noteUUID) ==
    IF db.err THEN db
    ELSE IF \A x \in db.notes : x.uuid # noteUUID THEN db
    ELSE IF ~(CHOOSE x \in db.notes : x.uuid = noteUUID).dirty
    THEN [db EXCEPT !.notes = {n \in @ : n.uuid # noteUUID}]
    ELSE db

checkNotesPristine(db, bookUUID) ==
    Cardinality({n \in db.notes : n.book_uuid = bookUUID /\ n.dirty}) = 0

\* syncDeleteBook without the look at the notes of the book
syncDeleteBookAnyway(db, bookUUID) ==
    IF db.err THEN db
    ELSE IF \A x \in db.books : x.uuid # bookUUID THEN db
    ELSE IF (CHOOSE x \in db.books : x.uuid = bookUUID).dirty THEN db
    ELSE [db EXCEPT !.notes = {n \in @ : n.book_uuid # bookUUID},
                    !.books = {x \in @ : x.uuid # bookUUID}]

\* syncDeleteBook deleting the book and leaving its notes
syncDeleteBookOnly(db, bookUUID) ==
    IF db.err THEN db
    ELSE IF \A x \in db.books : x.uuid # bookUUID THEN db
    ELSE IF (CHOOSE x \in db.books : x.uuid = bookUUID).dirty THEN db
    ELSE IF Cardinality({n \in db.notes : n.book_uuid = bookUUID /\ n.dirty}) # 0
    THEN [db EXCEPT !.books =
             {IF x.uuid = bookUUID THEN [x EXCEPT !.dirty = TRUE] ELSE x : x \in @}]
    ELSE [db EXCEPT !.books = {x \in @ : x.uuid # bookUUID}]

syncDeleteBook(db, bookUUID) ==
    IF db.err THEN db
    ELSE IF \A x \in db.books : x.uuid # bookUUID THEN db
    ELSE IF (CHOOSE x \in db.books : x.uuid = bookUUID).dirty THEN db
    ELSE IF ~checkNotesPristine(db, bookUUID)
    THEN [db EXCEPT !.books =
             {IF x.uuid = bookUUID THEN [x EXCEPT !.dirty = TRUE] ELSE x : x \in @}]
    ELSE [db EXCEPT !.notes = {n \in @ : n.book_uuid # bookUUID},
                    !.books = {x \in @ : x.uuid # bookUUID}]

checkNoteInList(uuid, list) ==
    \/ \E n \in list.Notes : n.uuid = uuid
    \/ uuid \in list.ExpungedNotes

checkBookInList(uuid, list) ==
    \/ \E b \in list.Books : b.uuid = uuid
    \/ uuid \in list.ExpungedBooks

\* cleanLocalNotes expunging nothing
cleanLocalNotesNothing(db, fullList) == db

cleanLocalNotes(db, fullList) ==
    [db EXCEPT !.notes =
        {n \in @ : ~(~checkNoteInList(n.uuid, fullList) /\ (~n.dirty \/ n.usn # 0))}]

cleanLocalBooks(db, fullList) ==
    [db EXCEPT !.books =
        {b \in @ : ~(~checkBookInList(b.uuid, fullList) /\ (~b.dirty \/ b.usn # 0))}]

saveSyncState(db, serverTime, serverMaxUSN) ==
    IF db.err THEN db
    ELSE [db EXCEPT !.lastMaxUSN = serverMaxUSN, !.lastSyncAt = serverTime]


\* ------------------------------------------------------------- sync list
EmptyList ==
    [Notes |-> {}, Books |-> {}, ExpungedNotes |-> {}, ExpungedBooks |-> {},
     MaxUSN |-> 0, MaxCurrentTime |-> 0, err |-> FALSE]

\* foldFragment keeping the FragMaxUSN of the fragment it saw last
foldFragmentLastUSN(acc, f) ==
    [Notes |-> {n \in acc.Notes : \A m \in f.Notes : m.uuid # n.uuid}
               \cup {[m EXCEPT !.body = Decrypt(m.body)] : m \in f.Notes},
     Books |-> {b \in acc.Books : \A m \in f.Books : m.uuid # b.uuid}
               \cup {[m EXCEPT !.label = Decrypt(m.label)] : m \in f.Books},
     ExpungedNotes |-> acc.ExpungedNotes \cup f.ExpungedNotes,
     ExpungedBooks |-> acc.ExpungedBooks \cup f.ExpungedBooks,
     MaxUSN |-> f.FragMaxUSN,
     MaxCurrentTime |->
         IF f.CurrentTime > acc.MaxCurrentTime THEN f.CurrentTime
         ELSE acc.MaxCurrentTime,
     err |-> \/ acc.err
             \/ \E m \in f.Notes : ~DecryptOk(m.body)
             \/ \E m \in f.Books : ~DecryptOk(m.label)]

\* one pass of the loop over the fragments: decrypt, then last seen wins per uuid
foldFragment(acc, f) ==
    [Notes |-> {n \in acc.Notes : \A m \in f.Notes : m.uuid # n.uuid}
               \cup {[m EXCEPT !.body = Decrypt(m.body)] : m \in f.Notes},
     Books |-> {b \in acc.Books : \A m \in f.Books : m.uuid # b.uuid}
               \cup {[m EXCEPT !.label = Decrypt(m.label)] : m \in f.Books},
     ExpungedNotes |-> acc.ExpungedNotes \cup f.ExpungedNotes,
     ExpungedBooks |-> acc.ExpungedBooks \cup f.ExpungedBooks,
     MaxUSN |-> IF f.FragMaxUSN > acc.MaxUSN THEN f.FragMaxUSN ELSE acc.MaxUSN,
     MaxCurrentTime |->
         IF f.CurrentTime > acc.MaxCurrentTime THEN f.CurrentTime
         ELSE acc.MaxCurrentTime,
     err |-> \/ acc.err
             \/ \E m \in f.Notes : ~DecryptOk(m.body)
             \/ \E m \in f.Books : ~DecryptOk(m.label)]

RECURSIVE foldFragments(_, _, _)
foldFragments(fragments, i, acc) ==
    IF i > Len(fragments) THEN acc
    ELSE foldFragments(fragments, i + 1, foldFragment(acc, fragments[i]))

\* processFragments skipping what it cannot decrypt
processFragmentsSkipping(fragments) ==
    [foldFragments(fragments, 1, EmptyList) EXCEPT !.err = FALSE]

\* a decryption failure returns the empty syncList{} and the error
processFragments(fragments) ==
    LET sl == foldFragments(fragments, 1, EmptyList)
    IN  IF sl.err THEN [EmptyList EXCEPT !.err = TRUE] ELSE sl

\* --------------------------------------------- the loops of stepSync, fullSync
\* Each loop ranges over a Go map, whose iteration order is not determined:
\* the operators below give the set of stores the loop can end in.
RECURSIVE mergeNotesAnyOrder(_, _, _)
mergeNotesAnyOrder(db, S, full) ==
    IF S = {} THEN {db}
    ELSE UNION {mergeNotesAnyOrder(
                    IF full THEN fullSyncNote(db, n) ELSE stepSyncNote(db, n),
                    S \ {n}, full) : n \in S}

RECURSIVE mergeBooksAnyOrder(_, _, _)
mergeBooksAnyOrder(db, S, full) ==
    IF S = {} THEN {db}
    ELSE UNION {mergeBooksAnyOrder(
                    IF full THEN fullSyncBook(db, b) ELSE stepSyncBook(db, b),
                    S \ {b}, full) : b \in S}

RECURSIVE deleteNotesAnyOrder(_, _)
deleteNotesAnyOrder(db, S) ==
    IF S = {} THEN {db}
    ELSE UNION {deleteNotesAnyOrder(syncDeleteNote(db, u), S \ {u}) : u \in S}

RECURSIVE deleteBooksAnyOrder(_, _)
deleteBooksAnyOrder(db, S) ==
    IF S = {} THEN {db}
    ELSE UNION {deleteBooksAnyOrder(syncDeleteBook(db, u), S \ {u}) : u \in S}

\* the stores the merging part of a pull can end in, the list given
applyList(db, list, full) ==
    LET s1 == mergeNotesAnyOrder(db, list.Notes, full)
        s2 == UNION {mergeBooksAnyOrder(d, list.Books, full) : d \in s1}
        s3 == UNION {deleteNotesAnyOrder(d, list.ExpungedNotes) : d \in s2}
        s4 == UNION {deleteBooksAnyOrder(d, list.ExpungedBooks) : d \in s3}
    IN  {saveSyncState(d, list.MaxCurrentTime, list.MaxUSN) : d \in s4}

\* the entities of the fragments whose ciphertext is rejected
rejectedIn(fragments) ==
    UNION {{<<"note", m.uuid>> : m \in {x \in fragments[i].Notes : ~DecryptOk(x.body)}}
           \cup {<<"book", m.uuid>> : m \in {x \in fragments[i].Books : ~DecryptOk(x.label)}}
           : i \in 1..Len(fragments)}

\* the entities the error of processFragments can name: the loops stop at the
\* first ciphertext that is rejected, the notes of a fragment before its books
RECURSIVE decryptError(_, _)
decryptError(fragments, i) ==
    IF i > Len(fragments) THEN {}
    ELSE LET f == fragments[i]
             notes == {<<"note", m.uuid>> : m \in {x \in f.Notes : ~DecryptOk(x.body)}}
             books == {<<"book", m.uuid>> : m \in {x \in f.Books : ~DecryptOk(x.label)}}
         IN  IF notes # {} THEN notes
             ELSE IF books # {} THEN books
             ELSE decryptError(fragments, i + 1)

\* the store the merging starts from: fullSync cleans the store first
pullStart(db, list, full) ==
    IF full THEN cleanLocalBooks(cleanLocalNotes(db, list), list) ELSE db

\* the stores in which the loop over list.Notes can merge the note n: after
\* the rounds for any of the other notes
beforeMergeNote(db, list, full, n) ==
    UNION {mergeNotesAnyOrder(pullStart(db, list, full), S, full) :
              S \in SUBSET (list.Notes \ {n})}

\* the stores in which the loops over the expunged uuids can start: after the
\* loops over the notes and the books of the list
beforeExpunged(db, list, full) ==
    LET s1 == mergeNotesAnyOrder(pullStart(db, list, full), list.Notes, full)
    IN  UNION {mergeBooksAnyOrder(d, list.Books, full) : d \in s1}

\* the stores the loops over the expunged uuids can end in
afterExpunged(db, list) ==
    UNION {deleteBooksAnyOrder(d, list.ExpungedBooks) :
              d \in deleteNotesAnyOrder(db, list.ExpungedNotes)}

\* the stores in which the loop over list.Books can merge the book b: after
\* the loop over the notes and after the rounds for any of the other books
beforeMergeBook(db, list, full, b) ==
    LET s1 == mergeNotesAnyOrder(pullStart(db, list, full), list.Notes, full)
    IN  UNION {mergeBooksAnyOrder(d, S, full) :
                  d \in s1, S \in SUBSET (list.Books \ {b})}

\* the stores in which the loop over list.ExpungedBooks can call
\* syncDeleteBook(tx, bookUUID): after the loops before it and after the
\* rounds for any of the other uuids
beforeSyncDeleteBook(db, list, full, bookUUID) ==
    LET s1 == mergeNotesAnyOrder(pullStart(db, list, full), list.Notes, full)
        s2 == UNION {mergeBooksAnyOrder(d, list.Books, full) : d \in s1}
        s3 == UNION {deleteNotesAnyOrder(d, list.ExpungedNotes) : d \in s2}
    IN  UNION {deleteBooksAnyOrder(d, S) :
                  d \in s3, S \in SUBSET (list.ExpungedBooks \ {bookUUID})}

stepSync(db, list) == applyList(db, list, FALSE)

fullSync(db, list) ==
    applyList(cleanLocalBooks(cleanLocalNotes(db, list), list), list, TRUE)

\* ------------------------------------------------------------------ server
\* The server keeps every book and note it ever stored, deleted ones as
\* tombstones, each stamped with the USN of its last change.
\* The server's clock reads time; it advances between the commands of this
\* client.
EmptyServer ==
    [books |-> {}, notes |-> {}, maxUSN |-> 0, fullSyncBefore |-> 0, time |-> 1]

GetSyncState(s) ==
    [MaxUSN |-> s.maxUSN, FullSyncBefore |-> s.fullSyncBefore, CurrentTime |-> s.time]

\* the USNs of the items a fragment after afterUSN carries: the PageLimit
\* smallest USNs above afterUSN
fragUSNs(s, afterUSN) ==
    LET all == {x.usn : x \in {y \in s.books \cup s.notes : y.usn > afterUSN}}
    IN  {u \in all : Cardinality({v \in all : v < u}) < PageLimit}

GetSyncFragment(s, afterUSN) ==
    LET us == fragUSNs(s, afterUSN)
    IN  [Notes |-> {[uuid |-> n.uuid, book_uuid |-> n.book_uuid, body |-> n.body,
                     usn |-> n.usn, deleted |-> n.deleted]
                    : n \in {m \in s.notes : m.usn \in us /\ ~m.deleted}},
         Books |-> {[uuid |-> b.uuid, label |-> b.label, usn |-> b.usn,
                     deleted |-> b.deleted]
                    : b \in {m \in s.books : m.usn \in us /\ ~m.deleted}},
         ExpungedNotes |-> {n.uuid : n \in {m \in s.notes : m.usn \in us /\ m.deleted}},
         ExpungedBooks |-> {b.uuid : b \in {m \in s.books : m.usn \in us /\ m.deleted}},
         FragMaxUSN |-> Max0(us),
         CurrentTime |-> s.time]

\* getSyncFragments against a server that is not written meanwhile: fragments
\* are requested until one comes with FragMaxUSN = 0
RECURSIVE getSyncFragments(_, _, _)
getSyncFragments(s, nextAfterUSN, fragments) ==
    LET frag == GetSyncFragment(s, nextAfterUSN)
    IN  IF frag.FragMaxUSN = 0 THEN Append(fragments, frag)
        ELSE getSyncFragments(s, frag.FragMaxUSN, Append(fragments, frag))

getSyncList(s, afterUSN) == processFragments(getSyncFragments(s, afterUSN, <<>>))

\* what a tombstone keeps of its content
NoLabel == Encrypt(<<>>)
NoBody == Encrypt("")

HasBook(s, uuid) == \E b \in s.books : b.uuid = uuid
\* The server keeps every live note in a live book: DeleteBook deletes the
\* book's notes with it, and a note is written only into a book that is live.
HasLiveBook(s, uuid) == \E b \in s.books : b.uuid = uuid /\ ~b.deleted
HasNote(s, uuid) == \E n \in s.notes : n.uuid = uuid

CreateBook(s, label) ==
    LET u == s.maxUSN + 1
    IN  [s EXCEPT !.maxUSN = u,
                  !.books = @ \cup {[uuid |-> u, label |-> label, usn |-> u,
                                     deleted |-> FALSE]}]

UpdateBook(s, label, uuid) ==
    LET u == s.maxUSN + 1
    IN  [s EXCEPT !.maxUSN = u,
                  !.books = {IF b.uuid = uuid
                             THEN [b EXCEPT !.label = label, !.usn = u,
                                            !.deleted = FALSE]
                             ELSE b : b \in @}]

\* the live notes of the book are deleted first, oldest first, then the book
liveNotesOf(s, uuid) == {n \in s.notes : n.book_uuid = uuid /\ ~n.deleted}

DeleteBook(s, uuid) ==
    LET live == liveNotesOf(s, uuid)
        rank(n) == Cardinality({m \in live : m.usn <= n.usn})
        u == s.maxUSN + Cardinality(live) + 1
    IN  [s EXCEPT !.maxUSN = u,
                  !.notes = {IF n \in live
                             THEN [n EXCEPT !.usn = s.maxUSN + rank(n),
                                            !.body = NoBody, !.deleted = TRUE]
                             ELSE n : n \in @},
                  !.books = {IF b.uuid = uuid
                             THEN [b EXCEPT !.label = NoLabel, !.usn = u,
                                            !.deleted = TRUE]
                             ELSE b : b \in @}]

CreateNote(s, bookUUID, body) ==
    LET u == s.maxUSN + 1
    IN  [s EXCEPT !.maxUSN = u,
                  !.notes = @ \cup {[uuid |-> u, book_uuid |-> bookUUID,
                                     body |-> body, usn |-> u, deleted |-> FALSE]}]

UpdateNote(s, uuid, bookUUID, body) ==
    LET u == s.maxUSN + 1
    IN  [s EXCEPT !.maxUSN = u,
                  !.notes = {IF n.uuid = uuid
                             THEN [n EXCEPT !.book_uuid = bookUUID, !.body = body,
                                            !.usn = u, !.deleted = FALSE]
                             ELSE n : n \in @}]

DeleteNote(s, uuid) ==
    LET u == s.maxUSN + 1
    IN  [s EXCEPT !.maxUSN = u,
                  !.notes = {IF n.uuid = uuid
                             THEN [n EXCEPT !.body = NoBody, !.usn = u,
                                            !.deleted = TRUE]
                             ELSE n : n \in @}]

\* ------------------------------------------------------------------- state
VARIABLES
    disk,        \* the committed local store
    tx,          \* the local store as the open transaction sees it
    srv,         \* the server
    pc,          \* where the sync command stands; "idle" between commands
    isFullSync,  \* the --full flag
    pullFull,    \* the pull under way is a full sync
    followUp,    \* the pull under way is the follow-up step sync
    afterUSN,    \* nextAfterUSN of getSyncFragments
    buf,         \* the fragments buffered by getSyncFragments
    queue,       \* the rows of the dirty scan still to send
    behind1,     \* isBehind of sendBooks
    behind2,     \* isBehind of sendNotes
    respUSN,     \* the USN of the latest push response
    hist         \* history: counters and what the run has seen so far

vars ==
    <<disk, tx, srv, pc, isFullSync, pullFull, followUp, afterUSN, buf, queue,
      behind1, behind2, respUSN, hist>>

runVars == <<isFullSync, pullFull, followUp, afterUSN, buf, queue, behind1, behind2, respUSN>>

InitHist ==
    [syncs |-> 0, edits |-> 0, others |-> 0, outcome |-> "none",
     startDisk |-> EmptyStore, observed |-> 0, nresp |-> 0, followUps |-> 0,
     followAfter |-> 0, pushEndUSN |-> 0, rolledBack |-> FALSE,
     dropped |-> FALSE, quiet |-> FALSE, quietRun |-> FALSE, branch |-> "none",
     forgot |-> FALSE, committed |-> FALSE, created |-> {}, again |-> {},
     seen |-> {}]

Init ==
    /\ disk = EmptyStore
    /\ tx = EmptyStore
    /\ srv = EmptyServer
    /\ pc = "idle"
    /\ isFullSync = FALSE
    /\ pullFull = FALSE
    /\ followUp = FALSE
    /\ afterUSN = 0
    /\ buf = <<>>
    /\ queue = {}
    /\ behind1 = FALSE
    /\ behind2 = FALSE
    /\ respUSN = 0
    /\ hist = InitHist

ResetRun ==
    /\ pullFull' = FALSE
    /\ followUp' = FALSE
    /\ afterUSN' = 0
    /\ buf' = <<>>
    /\ queue' = {}
    /\ behind1' = FALSE
    /\ behind2' = FALSE
    /\ respUSN' = 0

dirtyBooks(db) == {b \in db.books : b.dirty}
dirtyNotes(db) == {n \in db.notes : n.dirty}

\* --------------------------------------------------------- the sync command
\* newRun up to ctx.DB.Begin()
Begin(full) ==
    /\ pc = "idle"
    /\ hist.syncs < MaxSyncs
    /\ pc' = "state"
    /\ tx' = disk
    /\ ResetRun
    /\ isFullSync' = full
    /\ hist' = [hist EXCEPT !.syncs = @ + 1, !.outcome = "none",
                            !.startDisk = disk, !.observed = 0, !.nresp = 0,
                            !.followUps = 0, !.followAfter = 0, !.pushEndUSN = 0,
                            !.rolledBack = FALSE, !.dropped = FALSE,
                            !.quietRun = (hist.quiet /\ ~full), !.branch = "none",
                            !.committed = FALSE, !.seen = {}]
    /\ srv' = [srv EXCEPT !.time = @ + 1]
    /\ UNCHANGED disk

\* the history of a run is kept while the run lasts
EndOfRun ==
    [hist EXCEPT !.observed = 0, !.nresp = 0, !.followUps = 0, !.followAfter = 0,
                 !.pushEndUSN = 0, !.rolledBack = FALSE, !.quietRun = FALSE,
                 !.branch = "none", !.seen = {}]

\* the command returns an error and the writes of its transaction stay
EndInErrorKeepingWrites(rolledBack) ==
    /\ pc' = "idle"
    /\ disk' = tx
    /\ tx' = tx
    /\ ResetRun
    /\ isFullSync' = FALSE
    /\ hist' = [EndOfRun EXCEPT !.outcome = "error", !.rolledBack = rolledBack,
                                !.dropped = (tx # disk), !.quiet = FALSE]
    /\ UNCHANGED srv

\* the command returns an error: the store is what was last committed
EndInError(rolledBack) ==
    /\ pc' = "idle"
    /\ tx' = disk
    /\ ResetRun
    /\ isFullSync' = FALSE
    /\ hist' = [EndOfRun EXCEPT !.outcome = "error", !.rolledBack = rolledBack,
                                !.dropped = (tx # disk), !.quiet = FALSE]
    /\ UNCHANGED <<disk, srv>>

\* sendChanges starts with the scan of sendBooks
StartPush(db) ==
    /\ pc' = "books"
    /\ queue' = dirtyBooks(db)

\* SyncStateStep looking at the flag of the command only, not at FullSyncBefore
SyncStateStepFlagOnly ==
    /\ pc = "state"
    /\ LET syncState == GetSyncState(srv)
           lastMaxUSN == tx.lastMaxUSN
           seen == [hist EXCEPT !.observed = Max({@, syncState.MaxUSN})]
       IN  IF isFullSync
           THEN /\ pc' = "fetch"
                /\ pullFull' = TRUE
                /\ afterUSN' = 0
                /\ hist' = [seen EXCEPT !.branch = "full"]
                /\ UNCHANGED <<tx, queue>>
           ELSE IF lastMaxUSN # syncState.MaxUSN
           THEN /\ pc' = "fetch"
                /\ pullFull' = FALSE
                /\ afterUSN' = lastMaxUSN
                /\ hist' = [seen EXCEPT !.branch = "step"]
                /\ UNCHANGED <<tx, queue>>
           ELSE /\ tx' = [tx EXCEPT !.lastSyncAt = syncState.CurrentTime]
                /\ StartPush(tx')
                /\ hist' = [seen EXCEPT !.branch = "nopull"]
                /\ UNCHANGED <<pullFull, afterUSN>>
    /\ UNCHANGED <<disk, srv, isFullSync, followUp, buf, behind1, behind2, respUSN>>

\* client.GetSyncState, the two system keys, and the pull decision
SyncStateStep ==
    /\ pc = "state"
    /\ LET syncState == GetSyncState(srv)
           lastSyncAt == tx.lastSyncAt
           lastMaxUSN == tx.lastMaxUSN
           seen == [hist EXCEPT !.observed = Max({@, syncState.MaxUSN})]
       IN  IF isFullSync \/ lastSyncAt < syncState.FullSyncBefore
           THEN /\ pc' = "fetch"
                /\ pullFull' = TRUE
                /\ afterUSN' = 0
                /\ hist' = [seen EXCEPT !.branch = "full"]
                /\ UNCHANGED <<tx, queue>>
           ELSE IF lastMaxUSN # syncState.MaxUSN
           THEN /\ pc' = "fetch"
                /\ pullFull' = FALSE
                /\ afterUSN' = lastMaxUSN
                /\ hist' = [seen EXCEPT !.branch = "step"]
                /\ UNCHANGED <<tx, queue>>
           ELSE /\ tx' = [tx EXCEPT !.lastSyncAt = syncState.CurrentTime]
                /\ StartPush(tx')
                /\ hist' = [seen EXCEPT !.branch = "nopull"]
                /\ UNCHANGED <<pullFull, afterUSN>>
    /\ UNCHANGED <<disk, srv, isFullSync, followUp, buf, behind1, behind2, respUSN>>

\* GetSyncState, getLastSyncAt, getLastMaxUSN or updateLastSyncAt fails: newRun
\* returns the error without calling tx.Rollback()
SyncStateFails ==
    /\ pc = "state"
    /\ EndInError(FALSE)

\* FetchFragment going on after a first response with FragMaxUSN = 0
FetchFragmentPastFirstZero ==
    /\ pc = "fetch"
    /\ LET frag == GetSyncFragment(srv, afterUSN)
       IN  /\ buf' = Append(buf, frag)
           /\ afterUSN' = frag.FragMaxUSN
           /\ pc' = IF frag.FragMaxUSN = 0 /\ buf # <<>> THEN "merge" ELSE "fetch"
           /\ hist' = [hist EXCEPT !.observed = Max({@, frag.FragMaxUSN}),
                                   !.seen = @ \cup fragUSNs(srv, afterUSN)]
    /\ UNCHANGED <<disk, tx, srv, isFullSync, pullFull, followUp, queue,
                   behind1, behind2, respUSN>>

\* FetchFragment leaving the loop after its first response
FetchFragmentOnce ==
    /\ pc = "fetch"
    /\ LET frag == GetSyncFragment(srv, afterUSN)
       IN  /\ buf' = Append(buf, frag)
           /\ afterUSN' = frag.FragMaxUSN
           /\ pc' = "merge"
           /\ hist' = [hist EXCEPT !.observed = Max({@, frag.FragMaxUSN}),
                                   !.seen = @ \cup fragUSNs(srv, afterUSN)]
    /\ UNCHANGED <<disk, tx, srv, isFullSync, pullFull, followUp, queue,
                   behind1, behind2, respUSN>>

\* one round of the loop of getSyncFragments
FetchFragment ==
    /\ pc = "fetch"
    /\ LET frag == GetSyncFragment(srv, afterUSN)
       IN  /\ buf' = Append(buf, frag)
           /\ afterUSN' = frag.FragMaxUSN
           /\ pc' = IF frag.FragMaxUSN = 0 THEN "merge" ELSE "fetch"
           /\ hist' = [hist EXCEPT !.observed = Max({@, frag.FragMaxUSN}),
                                   !.seen = @ \cup fragUSNs(srv, afterUSN)]
    /\ UNCHANGED <<disk, tx, srv, isFullSync, pullFull, followUp, queue,
                   behind1, behind2, respUSN>>

\* the rest of fullSync or stepSync, the fragments fetched
PullResults == 
    LET list == processFragments(buf)
    IN  IF list.err THEN {Fail(tx)}
        ELSE IF pullFull THEN fullSync(tx, list) ELSE stepSync(tx, list)

Pull ==
    /\ pc = "merge"
    /\ \E db \in PullResults :
          /\ ~db.err
          /\ tx' = db
          /\ IF followUp
             THEN pc' = "commit" /\ queue' = queue
             ELSE StartPush(db)
    /\ buf' = <<>>
    /\ UNCHANGED <<disk, srv, isFullSync, pullFull, followUp, afterUSN,
                   behind1, behind2, respUSN, hist>>

\* a ciphertext is rejected or a merge statement returns an error
PullFails ==
    /\ pc = "merge"
    /\ \E db \in PullResults : db.err
    /\ EndInError(TRUE)

\* client.GetSyncFragment fails, or a statement of the merge fails in the store
PullBreaks ==
    /\ pc \in {"fetch", "merge"}
    /\ EndInError(TRUE)

\* ------------------------------------------------------------- push engine
\* sentBookCreate without the rewrite of the notes' book_uuid
sentBookCreateOnly(db, book, respUUID, usn) ==
    [db EXCEPT
        !.books = {IF x.uuid = book.uuid
                   THEN [x EXCEPT !.uuid = respUUID, !.label = book.label,
                                  !.usn = usn, !.dirty = FALSE,
                                  !.deleted = book.deleted]
                   ELSE x : x \in @}]

\* the local statements of sendBooks after CreateBook has answered
\* sentBookCreate clearing dirty without adopting the USN of the response
sentBookCreateNoUSN(db, book, respUUID, usn) ==
    [db EXCEPT
        !.notes = {IF n.book_uuid = book.uuid THEN [n EXCEPT !.book_uuid = respUUID]
                   ELSE n : n \in @},
        !.books = {IF x.uuid = book.uuid
                   THEN [x EXCEPT !.uuid = respUUID, !.label = book.label,
                                  !.dirty = FALSE, !.deleted = book.deleted]
                   ELSE x : x \in @}]

sentBookCreate(db, book, respUUID, usn) ==
    [db EXCEPT
        !.notes = {IF n.book_uuid = book.uuid THEN [n EXCEPT !.book_uuid = respUUID]
                   ELSE n : n \in @},
        !.books = {IF x.uuid = book.uuid
                   THEN [x EXCEPT !.uuid = respUUID, !.label = book.label,
                                  !.usn = usn, !.dirty = FALSE,
                                  !.deleted = book.deleted]
                   ELSE x : x \in @}]

\* the local statements of sendBooks after UpdateBook has answered
sentBookUpdate(db, book, usn) ==
    [db EXCEPT
        !.books = {IF x.uuid = book.uuid
                   THEN [x EXCEPT !.label = book.label, !.usn = usn,
                                  !.dirty = FALSE, !.deleted = book.deleted]
                   ELSE x : x \in @}]

expungeBook(db, book) == [db EXCEPT !.books = {x \in @ : x.uuid # book.uuid}]

\* the local statements of sendNotes after CreateNote has answered
sentNoteCreate(db, note, respUUID, usn) ==
    [db EXCEPT
        !.notes = {IF n.uuid = note.uuid
                   THEN [n EXCEPT !.uuid = respUUID, !.book_uuid = note.book_uuid,
                                  !.body = note.body, !.usn = usn, !.dirty = FALSE,
                                  !.deleted = note.deleted]
                   ELSE n : n \in @}]

\* sentNoteUpdate taking the USN of the response and leaving the note dirty
sentNoteUpdateStillDirty(db, note, usn) ==
    [db EXCEPT
        !.notes = {IF n.uuid = note.uuid
                   THEN [n EXCEPT !.book_uuid = note.book_uuid, !.body = note.body,
                                  !.usn = usn, !.deleted = note.deleted]
                   ELSE n : n \in @}]

\* the local statements of sendNotes after UpdateNote has answered
sentNoteUpdate(db, note, usn) ==
    [db EXCEPT
        !.notes = {IF n.uuid = note.uuid
                   THEN [n EXCEPT !.book_uuid = note.book_uuid, !.body = note.body,
                                  !.usn = usn, !.dirty = FALSE,
                                  !.deleted = note.deleted]
                   ELSE n : n \in @}]

\* the expunging of a note that leaves the row
expungeNoteNot(db, note) == db

expungeNote(db, note) == [db EXCEPT !.notes = {n \in @ : n.uuid # note.uuid}]

\* recordUSN leaving last_max_usn whatever the response
recordUSNNever(db, usn) == db

\* recordUSN taking every response USN above last_max_usn
recordUSNAny(db, usn) ==
    IF usn > db.lastMaxUSN THEN [db EXCEPT !.lastMaxUSN = usn] ELSE db

\* the end of each round of sendBooks and sendNotes: the response USN against
\* last_max_usn
recordUSN(db, usn) ==
    IF usn = db.lastMaxUSN + 1 THEN [db EXCEPT !.lastMaxUSN = @ + 1] ELSE db

fallsBehind(db, usn) == usn # db.lastMaxUSN + 1

\* a response of the server has arrived in the push
Responded(usn) ==
    /\ respUSN' = usn
    /\ hist' = [hist EXCEPT !.nresp = @ + 1, !.observed = Max({@, usn}),
                            !.seen = @ \cup {usn}]

\* the response of CreateBook or CreateNote has arrived: the server has made
\* a row for the local row of that table and uuid. created holds the local
\* rows the server has made a row for in a transaction that was not committed
\* since, again those it has made a second row for.
RespondedCreate(table, uuid, usn) ==
    /\ respUSN' = usn
    /\ hist' = [hist EXCEPT !.nresp = @ + 1, !.observed = Max({@, usn}),
                            !.seen = @ \cup {usn},
                            !.created = @ \cup {<<table, uuid>>},
                            !.again = IF <<table, uuid>> \in hist.created
                                      THEN @ \cup {<<table, uuid>>} ELSE @]

PushBookExpunge(b) ==
    /\ pc = "books" /\ b \in queue
    /\ b.usn = 0 /\ b.deleted
    /\ tx' = expungeBook(tx, b)
    /\ queue' = queue \ {b}
    /\ UNCHANGED <<disk, srv, pc, isFullSync, pullFull, followUp, afterUSN, buf,
                   behind1, behind2, respUSN, hist>>

PushBookCreate(b) ==
    /\ pc = "books" /\ b \in queue
    /\ b.usn = 0 /\ ~b.deleted
    /\ srv.maxUSN < MaxUSN
    /\ srv' = CreateBook(srv, Encrypt(b.label))
    /\ LET usn == srv'.maxUSN
           db == sentBookCreate(tx, b, usn, usn)
       IN  /\ tx' = recordUSN(db, usn)
           /\ behind1' = (behind1 \/ fallsBehind(db, usn))
           /\ RespondedCreate("books", b.uuid, usn)
    /\ queue' = queue \ {b}
    /\ UNCHANGED <<disk, pc, isFullSync, pullFull, followUp, afterUSN, buf, behind2>>

PushBookDelete(b) ==
    /\ pc = "books" /\ b \in queue
    /\ b.usn # 0 /\ b.deleted
    /\ HasBook(srv, b.uuid)
    /\ srv.maxUSN + Cardinality(liveNotesOf(srv, b.uuid)) < MaxUSN
    /\ srv' = DeleteBook(srv, b.uuid)
    /\ LET usn == srv'.maxUSN
           db == expungeBook(tx, b)
       IN  /\ tx' = recordUSN(db, usn)
           /\ behind1' = (behind1 \/ fallsBehind(db, usn))
           /\ Responded(usn)
    /\ queue' = queue \ {b}
    /\ UNCHANGED <<disk, pc, isFullSync, pullFull, followUp, afterUSN, buf, behind2>>

PushBookUpdate(b) ==
    /\ pc = "books" /\ b \in queue
    /\ b.usn # 0 /\ ~b.deleted
    /\ HasBook(srv, b.uuid)
    /\ srv.maxUSN < MaxUSN
    /\ srv' = UpdateBook(srv, Encrypt(b.label), b.uuid)
    /\ LET usn == srv'.maxUSN
           db == sentBookUpdate(tx, b, usn)
       IN  /\ tx' = recordUSN(db, usn)
           /\ behind1' = (behind1 \/ fallsBehind(db, usn))
           /\ Responded(usn)
    /\ queue' = queue \ {b}
    /\ UNCHANGED <<disk, pc, isFullSync, pullFull, followUp, afterUSN, buf, behind2>>

\* sendBooks returns, sendNotes starts with its own scan
EndBooks ==
    /\ pc = "books" /\ queue = {}
    /\ pc' = "notes"
    /\ queue' = dirtyNotes(tx)
    /\ UNCHANGED <<disk, tx, srv, isFullSync, pullFull, followUp, afterUSN, buf,
                   behind1, behind2, respUSN, hist>>

PushNoteExpunge(n) ==
    /\ pc = "notes" /\ n \in queue
    /\ n.usn = 0 /\ n.deleted
    /\ tx' = expungeNote(tx, n)
    /\ queue' = queue \ {n}
    /\ UNCHANGED <<disk, srv, pc, isFullSync, pullFull, followUp, afterUSN, buf,
                   behind1, behind2, respUSN, hist>>

PushNoteCreate(n) ==
    /\ pc = "notes" /\ n \in queue
    /\ n.usn = 0 /\ ~n.deleted
    /\ HasLiveBook(srv, n.book_uuid)
    /\ srv.maxUSN < MaxUSN
    /\ srv' = CreateNote(srv, n.book_uuid, Encrypt(n.body))
    /\ LET usn == srv'.maxUSN
           db == sentNoteCreate(tx, n, usn, usn)
       IN  /\ tx' = recordUSN(db, usn)
           /\ behind2' = (behind2 \/ fallsBehind(db, usn))
           /\ RespondedCreate("notes", n.uuid, usn)
    /\ queue' = queue \ {n}
    /\ UNCHANGED <<disk, pc, isFullSync, pullFull, followUp, afterUSN, buf, behind1>>

PushNoteDelete(n) ==
    /\ pc = "notes" /\ n \in queue
    /\ n.usn # 0 /\ n.deleted
    /\ HasNote(srv, n.uuid)
    /\ srv.maxUSN < MaxUSN
    /\ srv' = DeleteNote(srv, n.uuid)
    /\ LET usn == srv'.maxUSN
           db == expungeNote(tx, n)
       IN  /\ tx' = recordUSN(db, usn)
           /\ behind2' = (behind2 \/ fallsBehind(db, usn))
           /\ Responded(usn)
    /\ queue' = queue \ {n}
    /\ UNCHANGED <<disk, pc, isFullSync, pullFull, followUp, afterUSN, buf, behind1>>

PushNoteUpdate(n) ==
    /\ pc = "notes" /\ n \in queue
    /\ n.usn # 0 /\ ~n.deleted
    /\ HasNote(srv, n.uuid)
    /\ HasLiveBook(srv, n.book_uuid)
    /\ srv.maxUSN < MaxUSN
    /\ srv' = UpdateNote(srv, n.uuid, n.book_uuid, Encrypt(n.body))
    /\ LET usn == srv'.maxUSN
           db == sentNoteUpdate(tx, n, usn)
       IN  /\ tx' = recordUSN(db, usn)
           /\ behind2' = (behind2 \/ fallsBehind(db, usn))
           /\ Responded(usn)
    /\ queue' = queue \ {n}
    /\ UNCHANGED <<disk, pc, isFullSync, pullFull, followUp, afterUSN, buf, behind1>>

\* a server call of the push fails, or a statement of the push fails in the store
PushBreaks ==
    /\ pc \in {"books", "notes"}
    /\ EndInError(TRUE)

\* the follow-up asking after the last_max_usn read when the sync began
followUpAfterStart(db, before) == before.lastMaxUSN

\* the follow-up asking after the USN of the last response of the push
followUpAfterLastResponse(db, before) == respUSN

\* the USN the follow-up step sync asks the fragments after
followUpAfter(db, before) == db.lastMaxUSN

\* sendChanges returns isBehind; newRun runs the follow-up step sync or commits
EndPush ==
    /\ pc = "notes" /\ queue = {}
    /\ IF behind1 \/ behind2
       THEN /\ pc' = "fetch"
            /\ followUp' = TRUE
            /\ pullFull' = FALSE
            /\ afterUSN' = followUpAfter(tx, hist.startDisk)
            /\ hist' = [hist EXCEPT !.followUps = @ + 1, !.followAfter = afterUSN',
                                    !.pushEndUSN = tx.lastMaxUSN]
       ELSE /\ pc' = "commit"
            /\ hist' = [hist EXCEPT !.pushEndUSN = tx.lastMaxUSN]
            /\ UNCHANGED <<followUp, pullFull, afterUSN>>
    /\ UNCHANGED <<disk, tx, srv, isFullSync, buf, queue, behind1, behind2, respUSN>>

\* tx.Commit()
Commit ==
    /\ pc = "commit"
    /\ disk' = tx
    /\ pc' = "idle"
    /\ ResetRun
    /\ isFullSync' = FALSE
    /\ hist' = [EndOfRun EXCEPT !.outcome = "ok", !.startDisk = tx,
                                !.quiet = (tx.lastMaxUSN = srv.maxUSN),
                                !.committed = TRUE, !.created = {}]
    /\ UNCHANGED <<tx, srv>>

\* tx.Commit() returns an error: nothing of the transaction reaches the
\* store; newRun does not look at the error, prints success and returns nil
CommitFails ==
    /\ pc = "commit"
    /\ pc' = "idle"
    /\ tx' = disk
    /\ ResetRun
    /\ isFullSync' = FALSE
    /\ hist' = [EndOfRun EXCEPT !.outcome = "ok", !.dropped = (tx # disk),
                                !.quiet = FALSE, !.committed = FALSE]
    /\ UNCHANGED <<disk, srv>>

\* ------------------------------------------------------------ local commands
\* The commands that edit the local store between syncs.
Edited(db) ==
    /\ disk' = db
    /\ tx' = db
    /\ hist' = [hist EXCEPT !.edits = @ + 1, !.outcome = "none", !.startDisk = db,
                            !.dropped = FALSE, !.quiet = FALSE]
    /\ UNCHANGED <<srv, pc, runVars>>

CanEdit == pc = "idle" /\ hist.edits < MaxEdits

liveBooks(db) == {b \in db.books : ~b.deleted}
liveNotes(db) == {n \in db.notes : ~n.deleted}

\* add a note to the book of that label, the book made when there is none
LocalAdd(label, body) ==
    /\ CanEdit
    /\ LET fresh == 0 - (hist.edits + 1)
           have == {b \in liveBooks(disk) : b.label = label}
           book == IF have = {} THEN NewBook(fresh, label, 0, FALSE, TRUE)
                   ELSE CHOOSE b \in have : TRUE
       IN  Edited([disk EXCEPT
                      !.books = @ \cup {book},
                      !.notes = @ \cup {NewNote(fresh, book.uuid, body, 0, FALSE, TRUE)}])

LocalEditNote(n, body) ==
    /\ CanEdit
    /\ n \in liveNotes(disk)
    /\ body # n.body
    /\ Edited([disk EXCEPT
                  !.notes = (@ \ {n}) \cup {[n EXCEPT !.body = body, !.dirty = TRUE]}])

LocalRenameBook(b, label) ==
    /\ CanEdit
    /\ b \in liveBooks(disk)
    /\ \A x \in liveBooks(disk) : x.label # label
    /\ Edited([disk EXCEPT
                  !.books = (@ \ {b}) \cup {[b EXCEPT !.label = label, !.dirty = TRUE]}])

LocalRemoveNote(n) ==
    /\ CanEdit
    /\ n \in liveNotes(disk)
    /\ Edited([disk EXCEPT
                  !.notes = (@ \ {n}) \cup {[n EXCEPT !.deleted = TRUE, !.dirty = TRUE]}])

LocalRemoveBook(b) ==
    /\ CanEdit
    /\ b \in liveBooks(disk)
    /\ Edited([disk EXCEPT
                  !.books = (@ \ {b}) \cup {[b EXCEPT !.deleted = TRUE, !.dirty = TRUE]},
                  !.notes = {IF n.book_uuid = b.uuid
                             THEN [n EXCEPT !.deleted = TRUE, !.dirty = TRUE]
                             ELSE n : n \in @}])

\* -------------------------------------------------------------- other clients
\* Other clients of the same user write to the server at any moment. 

\* the bodies other clients upload: well-formed ciphertexts, and one that the
\* cipher key of this client rejects
NewWireBodies == {Encrypt(FirstBody), Corrupt(FirstBody)}
WireBodies == {Encrypt(b) : b \in Bodies}
\* the labels the commands of this client refuse for a book ("trash" and
\* "conflicts", one value standing for both); other clients are not bound
ReservedLabels == {<<0>>}
NewWireLabels ==
    {Encrypt(l) : l \in Labels \cup ReservedLabels} \cup {Corrupt(<<1>>)}

Written(s) ==
    /\ srv' = s
    /\ hist' = [hist EXCEPT !.others = @ + 1, !.quiet = FALSE, !.quietRun = FALSE]
    /\ UNCHANGED <<disk, tx, pc, runVars>>

\* A write that lands while the client computes locally is seen at the client's
\* next server call, as one that lands right before that call.
CanWrite ==
    /\ pc \in {"idle", "fetch", "books", "notes"}
    /\ hist.others < MaxOther
    /\ srv.maxUSN < MaxUSN

OtherCreateBook(label) ==
    /\ CanWrite
    /\ Written(CreateBook(srv, label))

OtherUpdateBook(b, label) ==
    /\ CanWrite
    /\ b \in srv.books /\ ~b.deleted
    /\ Written(UpdateBook(srv, Encrypt(label), b.uuid))

OtherDeleteBook(b) ==
    /\ CanWrite
    /\ b \in srv.books /\ ~b.deleted
    /\ srv.maxUSN + Cardinality(liveNotesOf(srv, b.uuid)) < MaxUSN
    /\ Written(DeleteBook(srv, b.uuid))

OtherCreateNote(b, body) ==
    /\ CanWrite
    /\ b \in srv.books /\ ~b.deleted
    /\ Written(CreateNote(srv, b.uuid, body))

OtherUpdateNote(n, body) ==
    /\ CanWrite
    /\ n \in srv.notes /\ ~n.deleted
    /\ body # n.body
    /\ Written(UpdateNote(srv, n.uuid, n.book_uuid, body))

OtherDeleteNote(n) ==
    /\ CanWrite
    /\ n \in srv.notes /\ ~n.deleted
    /\ Written(DeleteNote(srv, n.uuid))


\* The server purges an old tombstone, once in a behaviour: a client that has
\* not pulled it keeps the row until the cleanup of a full sync.
ForgetTombstone(x) ==
    /\ pc = "idle"
    /\ ~hist.forgot
    /\ x \in srv.books \cup srv.notes
    /\ x.deleted /\ x.usn < srv.maxUSN
    /\ srv' = [srv EXCEPT !.books = @ \ {x}, !.notes = @ \ {x}]
    /\ hist' = [hist EXCEPT !.forgot = TRUE, !.quiet = FALSE]
    /\ UNCHANGED <<disk, tx, pc, runVars>>

\* the server asks every client for a full sync
RequireFullSync ==
    /\ pc = "idle"
    /\ hist.others < MaxOther
    /\ srv.fullSyncBefore = 0
    /\ srv' = [srv EXCEPT !.time = @ + 1, !.fullSyncBefore = srv.time + 1]
    /\ hist' = [hist EXCEPT !.others = @ + 1, !.quiet = FALSE]
    /\ UNCHANGED <<disk, tx, pc, runVars>>

Next ==
    \/ \E full \in BOOLEAN : Begin(full)
    \/ SyncStateStep
    \/ SyncStateFails
    \/ FetchFragment
    \/ Pull
    \/ PullFails
    \/ PullBreaks
    \/ \E b \in queue : PushBookExpunge(b)
    \/ \E b \in queue : PushBookCreate(b)
    \/ \E b \in queue : PushBookDelete(b)
    \/ \E b \in queue : PushBookUpdate(b)
    \/ EndBooks
    \/ \E n \in queue : PushNoteExpunge(n)
    \/ \E n \in queue : PushNoteCreate(n)
    \/ \E n \in queue : PushNoteDelete(n)
    \/ \E n \in queue : PushNoteUpdate(n)
    \/ PushBreaks
    \/ EndPush
    \/ Commit
    \/ \E l \in Labels : LocalAdd(l, FirstBody)
    \/ \E n \in disk.notes, body \in Bodies : LocalEditNote(n, body)
    \/ \E b \in disk.books, l \in Labels : LocalRenameBook(b, l)
    \/ \E n \in disk.notes : LocalRemoveNote(n)
    \/ \E b \in disk.books : LocalRemoveBook(b)
    \/ \E l \in NewWireLabels : OtherCreateBook(l)
    \/ \E b \in srv.books, l \in Labels : OtherUpdateBook(b, l)
    \/ \E b \in srv.books : OtherDeleteBook(b)
    \/ \E b \in srv.books, body \in NewWireBodies : OtherCreateNote(b, body)
    \/ \E n \in srv.notes, body \in WireBodies : OtherUpdateNote(n, body)
    \/ \E n \in srv.notes : OtherDeleteNote(n)
    \/ RequireFullSync
    \/ \E x \in srv.books \cup srv.notes : ForgetTombstone(x)

Spec == Init /\ [][Next]_vars

\* the sync command with a store whose commit can fail
NextCommit == Next \/ CommitFails

SpecCommit == Init /\ [][NextCommit]_vars

\* ---------------------------------------------------- server: operations
\* GetNote of the server's operations package, under the specification
\* SpecGetNote: srv.notes is the notes table of the server (rows with uuid,
\* UserID, Public, Body), and buf holds the call made and what it returned.

\* the ID of models.User{}, the guest
Guest == 0
Users == {Guest, 1, 2}
RequestUUIDs == {1, 2, 3}

\* models.Note{}
EmptyNote == [uuid |-> 0, UserID |-> 0, Public |-> FALSE, Body |-> ""]

\* the notes tables: for each of two uuids no row, or one row of an owner,
\* private or public
WebNote(uuid, owner, public) ==
    [uuid |-> uuid, UserID |-> owner, Public |-> public, Body |-> "x"]
WebNotesOf(uuid) ==
    {{}} \cup {{WebNote(uuid, o, p)} : o \in Users \ {Guest}, p \in BOOLEAN}
NoteTables == {a \cup b : a \in WebNotesOf(1), b \in WebNotesOf(2)}

\* GetNote looking at the owner only
GetNoteOwnerOnly(db, uuid, user) ==
    IF \A n \in db : n.uuid # uuid
    THEN [note |-> EmptyNote, ok |-> FALSE, err |-> FALSE]
    ELSE LET n == CHOOSE x \in db : x.uuid = uuid
         IN  IF n.UserID = user
             THEN [note |-> n, ok |-> TRUE, err |-> FALSE]
             ELSE [note |-> EmptyNote, ok |-> FALSE, err |-> FALSE]

\* GetNote(db, uuid, user): the note of that uuid if the user may read it
GetNote(db, uuid, user) ==
    IF \A n \in db : n.uuid # uuid
    THEN [note |-> EmptyNote, ok |-> FALSE, err |-> FALSE]
    ELSE LET n == CHOOSE x \in db : x.uuid = uuid
         IN  IF n.Public \/ n.UserID = user
             THEN [note |-> n, ok |-> TRUE, err |-> FALSE]
             ELSE [note |-> EmptyNote, ok |-> FALSE, err |-> FALSE]

\* the tables and the expectations of TestGetNote and TestGetNote_nonexistent:
\* user is 1, anotherUser is 2, privateNote is 1, publicNote is 2
privateNote == WebNote(1, 1, FALSE)
publicNote == WebNote(2, 1, TRUE)
testCases ==
    {[db |-> {privateNote, publicNote}, user |-> 1, uuid |-> 1,
      expectedOK |-> TRUE, expectedNote |-> privateNote],
     [db |-> {privateNote, publicNote}, user |-> 2, uuid |-> 1,
      expectedOK |-> FALSE, expectedNote |-> EmptyNote],
     [db |-> {privateNote, publicNote}, user |-> 2, uuid |-> 2,
      expectedOK |-> TRUE, expectedNote |-> publicNote],
     [db |-> {privateNote, publicNote}, user |-> Guest, uuid |-> 1,
      expectedOK |-> FALSE, expectedNote |-> EmptyNote],
     [db |-> {privateNote, publicNote}, user |-> Guest, uuid |-> 2,
      expectedOK |-> TRUE, expectedNote |-> publicNote],
     [db |-> {privateNote}, user |-> 1, uuid |-> 3,
      expectedOK |-> FALSE, expectedNote |-> EmptyNote]}

InitGetNote ==
    /\ srv \in {[EmptyServer EXCEPT !.notes = db] : db \in NoteTables}
    /\ pc = "web"
    /\ buf = <<>>
    /\ disk = EmptyStore
    /\ tx = EmptyStore
    /\ isFullSync = FALSE
    /\ pullFull = FALSE
    /\ followUp = FALSE
    /\ afterUSN = 0
    /\ queue = {}
    /\ behind1 = FALSE
    /\ behind2 = FALSE
    /\ respUSN = 0
    /\ hist = InitHist

\* one call of GetNote
CallGetNote ==
    /\ pc = "web"
    /\ \E uuid \in RequestUUIDs, user \in Users :
          buf' = <<[uuid |-> uuid, user |-> user,
                    ret |-> GetNote(srv.notes, uuid, user)]>>
    /\ pc' = "returned"
    /\ UNCHANGED <<disk, tx, srv, isFullSync, pullFull, followUp, afterUSN, queue,
                   behind1, behind2, respUSN, hist>>

NextGetNote == CallGetNote

SpecGetNote == InitGetNote /\ [][NextGetNote]_vars

\* ------------------------------------------------- the fragment fetch loop
\* getSyncList called by fullSync (afterUSN 0) or by stepSync (the last max
\* USN of the store) against a server holding books and tombstones of any
\* USNs, written by other clients while the loop runs
FetchServers ==
    {[EmptyServer EXCEPT
         !.maxUSN = Max0(U),
         !.books = {[uuid |-> u, label |-> IF u \in D THEN NoLabel ELSE Encrypt(<<1>>),
                     usn |-> u, deleted |-> u \in D] : u \in U}]
     : U \in SUBSET (1..MaxUSN), D \in SUBSET (1..MaxUSN)}

\* the afterUSN the caller of getSyncList passes
callerAfterUSN == IF pullFull THEN 0 ELSE tx.lastMaxUSN

InitFetch ==
    /\ srv \in FetchServers
    /\ pullFull \in BOOLEAN
    /\ tx \in {[EmptyStore EXCEPT !.lastMaxUSN = a] : a \in 0..MaxUSN}
    /\ tx.lastMaxUSN <= srv.maxUSN
    /\ afterUSN = callerAfterUSN
    /\ pc = "fetch"
    /\ buf = <<>>
    /\ disk = tx
    /\ isFullSync = FALSE
    /\ followUp = FALSE
    /\ queue = {}
    /\ behind1 = FALSE
    /\ behind2 = FALSE
    /\ respUSN = 0
    /\ hist = InitHist

NextFetch ==
    \/ FetchFragment
    \/ PullBreaks
    \/ \E l \in NewWireLabels : OtherCreateBook(l)
    \/ \E b \in srv.books : OtherDeleteBook(b)

\* the loop of getSyncFragments calls GetSyncFragment again as soon as a
\* response has come
SpecFetch == InitFetch /\ [][NextFetch]_vars /\ WF_vars(FetchFragment)

\* ------------------------------------- migration sync-book-uuids-from-server
\* the uuids books have, locally and on the server
MigrationUUIDs == {1, 2, 3}

\* the ways to give the books of some labels uuids, no two books the same
BookUUIDMaps ==
    UNION {{f \in [D -> MigrationUUIDs] : \A x, y \in D : f[x] = f[y] => x = y}
           : D \in SUBSET Labels}

\* a store in which the books of f exist, those of the labels in N with a note
MigrationStore(f, N) ==
    [EmptyStore EXCEPT
        !.books = {NewBook(f[l], l, 0, FALSE, FALSE) : l \in DOMAIN f},
        !.notes = {NewNote(-f[l], f[l], FirstBody, 0, FALSE, FALSE) : l \in N}]

\* a server that has the books of g; this client sends and compares the
\* labels as they are
MigrationServer(g) ==
    [EmptyServer EXCEPT
        !.maxUSN = Max0({g[l] : l \in DOMAIN g}),
        !.books = {[uuid |-> g[l], label |-> l, usn |-> g[l], deleted |-> FALSE]
                   : l \in DOMAIN g}]

\* the responses of client.GetBooks, the books of the server in every order
GetBooks(s) ==
    LET all == {[UUID |-> b.uuid, Label |-> b.label] : b \in s.books}
        n == Cardinality(all)
    IN  {q \in [1..n -> all] : \A i, j \in 1..n : q[i] = q[j] => i = j}

\* one round of the second loop of rm1. The statements are those of the
\* source; UPDATE books can return an error when it gives the book the uuid
\* another book has.
rm1Book(db, book) ==
    IF CountLabel(db, book.Label) = 0 THEN {db}
    ELSE LET originalUUID == (CHOOSE b \in db.books : b.label = book.Label).uuid
             updated ==
                 [db EXCEPT
                     !.books = {IF b.label = book.Label THEN [b EXCEPT !.uuid = book.UUID]
                                ELSE b : b \in @},
                     !.notes = {IF n.book_uuid = originalUUID
                                THEN [n EXCEPT !.book_uuid = book.UUID]
                                ELSE n : n \in @}]
         IN  IF \E b \in db.books : b.uuid = book.UUID /\ b.label # book.Label
             THEN {updated, Fail(db)}
             ELSE {updated}

InitMigration ==
    /\ \E f \in BookUUIDMaps : \E N \in SUBSET (DOMAIN f) : disk = MigrationStore(f, N)
    /\ \E g \in BookUUIDMaps : srv = MigrationServer(g)
    /\ buf \in GetBooks(srv)
    /\ tx = disk
    /\ pc = "rm1"
    /\ isFullSync = FALSE
    /\ pullFull = FALSE
    /\ followUp = FALSE
    /\ afterUSN = 0
    /\ queue = {}
    /\ behind1 = FALSE
    /\ behind2 = FALSE
    /\ respUSN = 0
    /\ hist = InitHist

\* the loop of rm1 takes the next book of the response
MigrateBook ==
    /\ pc = "rm1"
    /\ buf # <<>>
    /\ \E db \in rm1Book(tx, Head(buf)) :
          /\ tx' = db
          /\ pc' = IF db.err THEN "failed" ELSE "rm1"
    /\ buf' = Tail(buf)
    /\ UNCHANGED <<disk, srv, isFullSync, pullFull, followUp, afterUSN, queue,
                   behind1, behind2, respUSN, hist>>

\* rm1 returns nil
MigrationReturns ==
    /\ pc = "rm1"
    /\ buf = <<>>
    /\ pc' = "migrated"
    /\ UNCHANGED <<disk, tx, srv, isFullSync, pullFull, followUp, afterUSN, buf,
                   queue, behind1, behind2, respUSN, hist>>

NextMigration == MigrateBook \/ MigrationReturns

SpecMigration == InitMigration /\ [][NextMigration]_vars

\* -------------------------------------------------------------- properties
\* C1: a sync that ends in an error leaves the committed store (books, notes,
\* last_sync_at, last_max_usn) as it was when the sync began.
FailedSyncLeavesStore == hist.outcome = "error" => disk = hist.startDisk

\* a sync has failed after its transaction had changed the store
FailedSyncDroppedWrites == hist.outcome = "error" /\ hist.dropped

\* C2: the committed last_max_usn never decreases.
CommittedMaxUSNMonotone == [][disk'.lastMaxUSN >= disk.lastMaxUSN]_vars

\* a second sync has committed a higher last_max_usn than the first
SecondCommitRaisedMaxUSN ==
    /\ hist.outcome = "ok" /\ hist.syncs = 2
    /\ disk.lastMaxUSN > 1

\* C3 (as the specification states it): a pull leaves the content of every
\* dirty, not deleted local note and book in place when it merges the server's
\* copy of the same uuid.
PullKeepsLocalEdits ==
    [][(pc = "merge" /\ pc' \in {"books", "commit"}) =>
          LET list == processFragments(buf)
          IN  /\ \A n \in tx.notes :
                    (n.dirty /\ ~n.deleted /\ \E m \in list.Notes : m.uuid = n.uuid)
                    => \E k \in tx'.notes : k.uuid = n.uuid /\ k.body = n.body
              /\ \A b \in tx.books :
                    (b.dirty /\ ~b.deleted /\ \E m \in list.Books : m.uuid = b.uuid)
                    => \E k \in tx'.books : k.uuid = b.uuid /\ k.label = b.label]_vars

LabelsUnique(db) ==
    \A a, b \in liveBooks(db) : a.label = b.label => a = b

\* C4: after every committed sync no two live (not deleted) books of the local
\* store have the same label.
CommittedLabelsUnique == LabelsUnique(disk)

\* a sync has committed a book renamed by the collision rule beside the
\* server's book of the label it had
CommittedRenamedBook ==
    /\ hist.outcome = "ok"
    /\ \E a, b \in liveBooks(disk) :
          /\ a.label \notin Labels
          /\ a.label = Append(b.label, a.label[Len(a.label)])

NotesHaveBooks(db) == \A n \in db.notes : \E b \in db.books : b.uuid = n.book_uuid

QuietSyncIsNoop ==
    hist.quietRun => (hist.branch \in {"none", "nopull"} /\ hist.nresp = 0)

\* C7: the last_max_usn a sync commits is the largest USN the server reported
\* during it.
CommitsLargestUSN == pc = "commit" => tx.lastMaxUSN = hist.observed

\* a sync is about to commit after a push that fell behind and a follow-up pull
CommitAfterFollowUp ==
    /\ pc = "commit" /\ hist.followUps = 1 /\ hist.nresp > 1
    /\ hist.observed > hist.pushEndUSN

\* sendChanges: isBehind := behind1 || behind2
isBehind == behind1 \/ behind2

\* C8: a push response of last_max_usn + 1 advances last_max_usn by one and
\* leaves isBehind as it was; any other leaves last_max_usn and sets isBehind,
\* which stays set for the rest of the push.
PushResponseRule ==
    [][/\ hist'.nresp = hist.nresp + 1 =>
             IF respUSN' = tx.lastMaxUSN + 1
             THEN tx'.lastMaxUSN = tx.lastMaxUSN + 1 /\ isBehind' = isBehind
             ELSE tx'.lastMaxUSN = tx.lastMaxUSN /\ isBehind'
       /\ (isBehind /\ pc \in {"books", "notes"} /\ pc' \in {"books", "notes"})
             => isBehind']_vars

\* the push has had a response that advanced last_max_usn and then, in
\* sendNotes, one that did not
PushFellBehindInNotes ==
    /\ pc = "notes" /\ behind2 /\ ~behind1
    /\ hist.nresp > 1
    /\ respUSN > tx.lastMaxUSN + 1
    /\ tx.lastMaxUSN > hist.startDisk.lastMaxUSN

\* C9: the follow-up step sync runs exactly when the push ends behind, once,
\* after the push, asking for the fragments after last_max_usn as the push
\* left it.
FollowUpRule ==
    /\ hist.followUps <= 1
    /\ pc = "commit" => ((hist.followUps = 1) <=> isBehind)
    /\ followUp => (isBehind /\ pc \in {"fetch", "merge", "commit"} /\ queue = {})
    /\ followUp => hist.followAfter = hist.pushEndUSN
    /\ (followUp /\ pc = "fetch" /\ buf = <<>>) => afterUSN = tx.lastMaxUSN

\* a follow-up pull starts after a push that advanced last_max_usn, in a sync
\* that pulled nothing before the push
FollowUpAfterAdvance ==
    /\ followUp /\ pc = "fetch" /\ buf = <<>>
    /\ hist.branch = "nopull"
    /\ afterUSN > hist.startDisk.lastMaxUSN

\* C10: the push of a locally created book leaves the row with the server's
\* uuid and usn and clean, and every note of the old uuid under the new one.
CreatedBookRule ==
    [][\A b \in queue :
          (pc = "books" /\ pc' = "books" /\ b \notin queue' /\ b.usn = 0 /\ ~b.deleted)
          => \E s \in srv'.books \ srv.books :
                /\ \E x \in tx'.books :
                      x.uuid = s.uuid /\ x.usn = s.usn /\ ~x.dirty /\ x.label = b.label
                /\ \A n \in tx.notes : n.book_uuid = b.uuid =>
                      \E m \in tx'.notes : m.uuid = n.uuid /\ m.book_uuid = s.uuid
                /\ \A m \in tx'.notes : m.book_uuid # b.uuid
                /\ \A x \in tx'.books : x.uuid # b.uuid]_vars

\* a locally created book with a note has been pushed
CreatedBookWithNote ==
    /\ pc = "books" /\ respUSN > 0
    /\ \E x \in tx.books : x.uuid = respUSN /\ x.usn = respUSN /\ ~x.dirty
    /\ \E n \in tx.notes : n.book_uuid = respUSN /\ n.usn = 0

\* C11: every row that is dirty when its push loop starts is handled once, by
\* the branch its usn and deleted select: expunged without a server call,
\* created, deleted and expunged, or updated; a response of the server answers
\* one call for one such row, and when the push ends no dirty row is left.
PushHandlesEachDirtyRowOnce ==
    [][/\ (pc = "books" /\ pc' = "books" /\ queue' # queue) =>
             \E b \in queue :
                /\ queue' = queue \ {b}
                /\ b \in tx.books /\ b.dirty
                /\ IF b.usn = 0 /\ b.deleted
                   THEN srv' = srv /\ \A x \in tx'.books : x.uuid # b.uuid
                   ELSE IF b.usn = 0
                   THEN /\ srv' = CreateBook(srv, Encrypt(b.label))
                        /\ \E x \in tx'.books :
                              x.uuid = srv'.maxUSN /\ x.usn = srv'.maxUSN /\ ~x.dirty
                   ELSE IF b.deleted
                   THEN /\ srv' = DeleteBook(srv, b.uuid)
                        /\ \A x \in tx'.books : x.uuid # b.uuid
                   ELSE /\ srv' = UpdateBook(srv, Encrypt(b.label), b.uuid)
                        /\ \E x \in tx'.books :
                              x.uuid = b.uuid /\ x.usn = srv'.maxUSN /\ ~x.dirty
       /\ (pc = "notes" /\ pc' = "notes" /\ queue' # queue) =>
             \E n \in queue :
                /\ queue' = queue \ {n}
                /\ n \in tx.notes /\ n.dirty
                /\ IF n.usn = 0 /\ n.deleted
                   THEN srv' = srv /\ \A x \in tx'.notes : x.uuid # n.uuid
                   ELSE IF n.usn = 0
                   THEN /\ srv' = CreateNote(srv, n.book_uuid, Encrypt(n.body))
                        /\ \E x \in tx'.notes :
                              x.uuid = srv'.maxUSN /\ x.usn = srv'.maxUSN /\ ~x.dirty
                   ELSE IF n.deleted
                   THEN /\ srv' = DeleteNote(srv, n.uuid)
                        /\ \A x \in tx'.notes : x.uuid # n.uuid
                   ELSE /\ srv' = UpdateNote(srv, n.uuid, n.book_uuid, Encrypt(n.body))
                        /\ \E x \in tx'.notes :
                              x.uuid = n.uuid /\ x.usn = srv'.maxUSN /\ ~x.dirty
       /\ hist'.nresp > hist.nresp =>
             (hist'.nresp = hist.nresp + 1 /\ pc' = pc /\ queue' # queue)
       /\ (pc = "books" /\ pc' = "notes") =>
             (dirtyBooks(tx) = {} /\ queue' = dirtyNotes(tx))
       /\ (pc = "notes" /\ pc' \in {"fetch", "commit"}) =>
             (dirtyBooks(tx) = {} /\ dirtyNotes(tx) = {})]_vars

\* in a push, a note that was added and removed before it was ever uploaded
\* has been expunged and the server has not heard of it
NeverUploadedNoteExpunged ==
    /\ pc = "notes" /\ hist.branch = "nopull"
    /\ \E n \in hist.startDisk.notes :
          /\ n.usn = 0 /\ n.deleted /\ n.dirty
          /\ n \notin queue
          /\ \A x \in tx.notes : x.uuid # n.uuid
    /\ hist.nresp > 0
    /\ srv.notes = {}

\* the book of that uuid is clean in the store and has a dirty note
cleanBookWithDirtyNote(db, bookUUID) ==
    /\ ~db.err
    /\ \E b \in db.books : b.uuid = bookUUID /\ ~b.dirty
    /\ \E n \in db.notes : n.book_uuid = bookUUID /\ n.dirty

\* C12: when the pull applies the server's deletion of a book that is clean
\* locally and has a dirty note, the book stays, dirty and not deleted, and
\* no note and no other book changes.
ServerDeletionKeepsBookOfDirtyNotes ==
    pc = "merge" =>
       LET list == processFragments(buf)
       IN  \A u \in list.ExpungedBooks :
              \A d \in beforeSyncDeleteBook(tx, list, pullFull, u) :
                 cleanBookWithDirtyNote(d, u) =>
                    LET r == syncDeleteBook(d, u)
                        b == CHOOSE x \in d.books : x.uuid = u
                    IN  /\ ~r.err
                        /\ [b EXCEPT !.dirty = TRUE] \in r.books
                        /\ ~b.deleted
                        /\ r.books \ {[b EXCEPT !.dirty = TRUE]} = d.books \ {b}
                        /\ r.notes = d.notes
                        /\ \E n \in r.notes : n.book_uuid = u /\ n.dirty

\* a pull is about to apply the server's deletion of a clean local book that
\* has a dirty note
DeletionMeetsDirtyNote ==
    /\ pc = "merge"
    /\ \E u \in processFragments(buf).ExpungedBooks :
          \E d \in beforeSyncDeleteBook(tx, processFragments(buf), pullFull, u) :
             cleanBookWithDirtyNote(d, u)

\* a row that was never uploaded
brandNew(row) == row.dirty /\ row.usn = 0

\* C13: cleanup of a full sync expunges exactly the rows that are neither in
\* the pulled list (live or expunged) nor brand-new (dirty and usn = 0), and
\* right after the pull phase of a full sync every local book and note is in
\* the list or brand-new.
FullSyncKeepsListedOrBrandNew ==
    [][(pc = "merge" /\ pullFull /\ pc' \in {"books", "commit"}) =>
          LET list == processFragments(buf)
              cleaned == cleanLocalBooks(cleanLocalNotes(tx, list), list)
          IN  /\ cleaned.notes =
                    {n \in tx.notes : checkNoteInList(n.uuid, list) \/ brandNew(n)}
              /\ cleaned.books =
                    {b \in tx.books : checkBookInList(b.uuid, list) \/ brandNew(b)}
              /\ \A n \in tx'.notes : checkNoteInList(n.uuid, list) \/ brandNew(n)
              /\ \A b \in tx'.books : checkBookInList(b.uuid, list) \/ brandNew(b)]_vars

\* a full sync has pulled a list that misses a local note that is not
\* brand-new, next to a brand-new row and a row that is in the list
CleanupMeetsUnlistedNote ==
    /\ pc = "merge" /\ pullFull
    /\ ~processFragments(buf).err
    /\ \E n \in tx.notes :
          ~checkNoteInList(n.uuid, processFragments(buf)) /\ ~brandNew(n)
    /\ \E b \in tx.books : brandNew(b)
    /\ \E b \in tx.books : checkBookInList(b.uuid, processFragments(buf))

\* C14: a sync that ends in an error after its transaction was opened has
\* rolled the transaction back before the command returns.
FailedSyncRolledBack == hist.outcome = "error" => hist.rolledBack

\* a sync has failed in the pull or the push and was rolled back
FailedPullRolledBack == hist.outcome = "error" /\ hist.rolledBack

\* C15: when a ciphertext of any fetched fragment is rejected, the pull
\* returns the empty list and an error that names a rejected entity, nothing
\* of any fragment is merged, and the sync ends in an error, rolled back, with
\* the store as it was when the sync began.
DecryptFailureAbortsPull ==
    [][(pc = "merge" /\ rejectedIn(buf) # {}) =>
          /\ processFragments(buf) = [EmptyList EXCEPT !.err = TRUE]
          /\ decryptError(buf, 1) # {}
          /\ decryptError(buf, 1) \subseteq rejectedIn(buf)
          /\ PullResults = {Fail(tx)}
          /\ pc' = "idle"
          /\ hist'.outcome = "error" /\ hist'.rolledBack
          /\ disk' = disk /\ tx' = disk
          /\ disk = hist.startDisk]_vars

\* a pull has fetched a fragment that decrypts and carries a note or a book,
\* and after it a fragment with a rejected ciphertext
DecryptFailureAfterGoodFragment ==
    /\ pc = "merge"
    /\ Len(buf) > 1
    /\ rejectedIn(<<buf[1]>>) = {}
    /\ buf[1].Notes \cup buf[1].Books # {}
    /\ rejectedIn(buf) # {}

\* C16: the pull decision follows from the full flag, the committed
\* last_sync_at and last_max_usn and the SyncState: a full sync from USN 0
\* iff the flag is set or last_sync_at < FullSyncBefore; otherwise an
\* incremental sync after last_max_usn iff last_max_usn # MaxUSN; otherwise
\* the push starts with no fragment fetched, last_sync_at = CurrentTime and
\* last_max_usn, books and notes as they were.
PullDecision ==
    [][(pc = "state" /\ pc' # "idle") =>
          LET st == GetSyncState(srv)
              full == isFullSync \/ disk.lastSyncAt < st.FullSyncBefore
              step == ~full /\ disk.lastMaxUSN # st.MaxUSN
          IN  /\ full <=> (pc' = "fetch" /\ pullFull' /\ afterUSN' = 0 /\ tx' = disk)
              /\ step <=> (/\ pc' = "fetch" /\ ~pullFull'
                           /\ afterUSN' = disk.lastMaxUSN /\ tx' = disk)
              /\ (~full /\ ~step) <=>
                    /\ pc' = "books" /\ buf' = <<>>
                    /\ queue' = dirtyBooks(disk)
                    /\ tx' = [disk EXCEPT !.lastSyncAt = st.CurrentTime]
              /\ srv' = srv]_vars

\* a sync has skipped the pull although the server requires full syncs of
\* clients that synced before some time: this client synced after it
NoPullAfterRequiredFullSync ==
    /\ pc = "books" /\ hist.branch = "nopull" /\ hist.nresp = 0
    /\ srv.fullSyncBefore > 0
    /\ disk.lastMaxUSN > 0
    /\ tx.lastSyncAt > disk.lastSyncAt

\* C17: the merges of a pull commute: whatever the order in which the loops
\* go through the notes, the books and the expungements of the list, the pull
\* ends in the same books and notes (stated for the lists whose books have
\* labels that differ from each other).
PullOrderIrrelevant ==
    (/\ pc = "merge" /\ ~processFragments(buf).err
     /\ \A a, b \in processFragments(buf).Books : a.label = b.label => a = b) =>
        \A d, e \in PullResults : d.books = e.books /\ d.notes = e.notes

\* C18: from any committed store and any server state, an incremental pull
\* followed by a full pull ends in the same books, notes and last_max_usn as
\* the full pull alone (stated for the servers that have kept every tombstone
\* and the pulls whose result does not depend on the order of their loops).
StepThenFullIsFull ==
    (/\ pc = "idle" /\ ~hist.forgot
     /\ ~getSyncList(srv, 0).err
     /\ Cardinality(fullSync(disk, getSyncList(srv, 0))) = 1
     /\ Cardinality(stepSync(disk, getSyncList(srv, disk.lastMaxUSN))) = 1
     /\ \A r1 \in stepSync(disk, getSyncList(srv, disk.lastMaxUSN)) :
           Cardinality(fullSync(r1, getSyncList(srv, 0))) = 1) =>
        \A r1 \in stepSync(disk, getSyncList(srv, disk.lastMaxUSN)) :
           \A r2 \in fullSync(r1, getSyncList(srv, 0)) :
              \A r3 \in fullSync(disk, getSyncList(srv, 0)) :
                 /\ r2.books = r3.books
                 /\ r2.notes = r3.notes
                 /\ r2.lastMaxUSN = r3.lastMaxUSN

\* the server's book b is absent from the store and the live local book x
\* holds its label
insertCollides(db, b, x) ==
    /\ ~db.err
    /\ \A y \in db.books : y.uuid # b.uuid
    /\ x \in db.books /\ ~x.deleted /\ x.label = b.label

\* C19: when a server book whose uuid is absent locally is merged and a live
\* local book holds its label, the local book keeps its uuid, gets the label
\* with a suffix (i), i >= 2, that no book held, and is dirty; a row with the
\* server's uuid, label and usn is inserted, not dirty; no note changes.
InsertCollisionRenamesLocal ==
    pc = "merge" =>
       LET list == processFragments(buf)
       IN  \A b \in list.Books :
              \A d \in beforeMergeBook(tx, list, pullFull, b) :
                 \A x \in d.books :
                    insertCollides(d, b, x) =>
                       LET r == IF pullFull THEN fullSyncBook(d, b)
                                ELSE stepSyncBook(d, b)
                       IN  /\ ~r.err
                           /\ \E i \in 2..(Cardinality(d.books) + 2) :
                                 /\ \A y \in d.books : y.label # Append(b.label, i)
                                 /\ \A y \in r.books :
                                       y.uuid = x.uuid <=>
                                       y = [x EXCEPT !.label = Append(b.label, i),
                                                     !.dirty = TRUE]
                           /\ \A y \in r.books :
                                 y.uuid = b.uuid <=>
                                 y = NewBook(b.uuid, b.label, b.usn, FALSE, FALSE)
                           /\ \E y \in r.books : y.uuid = x.uuid
                           /\ \E y \in r.books : y.uuid = b.uuid
                           /\ r.notes = d.notes

\* a pull is about to insert a server book whose label a never-uploaded local
\* book holds
InsertMeetsLocalLabel ==
    /\ pc = "merge"
    /\ \E b \in processFragments(buf).Books :
          \E x \in tx.books :
             /\ x.usn = 0
             /\ \E d \in beforeMergeBook(tx, processFragments(buf), pullFull, b) :
                   insertCollides(d, b, x)

\* stepSyncBook or fullSyncBook calls mergeBook for the server's book b, and
\* mergeBook calls the resolver: a row of the store holds b's label
resolverCalled(db, b, full) ==
    /\ ~db.err
    /\ \/ ~full
       \/ \A x \in db.books : x.uuid # b.uuid
       \/ \E x \in db.books : x.uuid = b.uuid /\ b.usn > x.usn
    /\ CountLabel(db, b.label) > 0

\* C20: for a colliding label L the resolver returns L (i) for the smallest
\* i >= 2 such that no live book holds L (i); the labels that only deleted
\* books hold do not block a candidate (stated for the servers and the lists
\* whose books have labels that differ from each other).
ResolverSkipsLiveLabelsOnly ==
    pc = "merge" =>
       LET list == processFragments(buf)
       IN  \A b \in list.Books :
              \A d \in beforeMergeBook(tx, list, pullFull, b) :
                 (/\ resolverCalled(d, b, pullFull)
                  /\ \A x, y \in list.Books : x.label = y.label => x = y
                  /\ \A x, y \in srv.books : x.label = y.label => x = y) =>
                    \E i \in 2..(Cardinality(d.books) + 2) :
                       /\ resolveLabel(d, b.label) = Append(b.label, i)
                       /\ \A y \in liveBooks(d) : y.label # Append(b.label, i)
                       /\ \A j \in 2..(i - 1) :
                             \E y \in liveBooks(d) : y.label = Append(b.label, j)

\* C21: when the first response of GetSyncFragment has FragMaxUSN = 0, the
\* loop stops after that one call and the list is empty (no notes, no books,
\* no expunged uuids) with MaxUSN = 0; no further fragment is fetched.
FirstEmptyFragmentEndsFetch ==
    [][/\ (pc = "fetch" /\ buf = <<>> /\ buf' # buf /\ buf'[1].FragMaxUSN = 0) =>
             /\ pc' = "merge"
             /\ Len(buf') = 1
             /\ processFragments(buf') =
                    [EmptyList EXCEPT !.MaxCurrentTime = buf'[1].CurrentTime]
             /\ processFragments(buf').MaxUSN = 0
       /\ (pc = "merge" /\ pc' # pc) => (pc' # "fetch" /\ buf' = <<>>)]_vars

\* a pull has ended its fetch loop on a first response with FragMaxUSN = 0
FetchEndedOnFirstResponse ==
    /\ pc = "merge"
    /\ Len(buf) = 1
    /\ buf[1].FragMaxUSN = 0

\* every row of the store with usn = 0 is dirty
NeverUploadedDirty(db) ==
    \A row \in db.books \cup db.notes : row.usn = 0 => row.dirty

\* C22: every book and note of the committed store with usn = 0 is dirty, and
\* so is every row of the store inside the transaction of a sync: no insert
\* from the server, merge or push response leaves a row with usn = 0 clean.
UsnZeroMeansDirty == NeverUploadedDirty(disk) /\ NeverUploadedDirty(tx)

\* a sync that began with a never-uploaded book is about to commit a store
\* with that book acknowledged and another book pulled from the server
CommitAfterPushAndInsert ==
    /\ pc = "commit"
    /\ Cardinality(hist.startDisk.books) = 1
    /\ \E b \in hist.startDisk.books : b.usn = 0 /\ b.dirty /\ ~b.deleted
    /\ Cardinality(tx.books) = 2
    /\ \A row \in tx.books \cup tx.notes : row.usn > 0 /\ ~row.dirty
    /\ tx.notes # {}

\* C23: after a sync that has committed, no local book has a reserved label,
\* whatever labels the server has delivered.
CommittedNoReservedLabel ==
    hist.outcome = "ok" => \A b \in disk.books : b.label \notin ReservedLabels

\* C24: GetNote(uuid, user) returns ok and the stored note exactly when a
\* note of that uuid exists and is public or owned by the user; otherwise
\* (private note and another user or the guest, or no note of that uuid) it
\* returns not ok, the empty note and no error. The calls of TestGetNote and
\* TestGetNote_nonexistent return what the tests expect.
GetNoteVisibility ==
    pc = "returned" =>
       LET call == buf[1]
           readable == {n \in srv.notes : /\ n.uuid = call.uuid
                                          /\ (n.Public \/ n.UserID = call.user)}
       IN  /\ ~call.ret.err
           /\ call.ret.ok <=> readable # {}
           /\ call.ret.ok => call.ret.note \in readable
           /\ ~call.ret.ok => call.ret.note = EmptyNote
           /\ \A tc \in testCases :
                 (srv.notes = tc.db /\ call.uuid = tc.uuid /\ call.user = tc.user) =>
                    /\ call.ret.ok = tc.expectedOK
                    /\ call.ret.note = tc.expectedNote

\* the guest has read the public note of the tables of TestGetNote
GuestReadPublicNote ==
    /\ pc = "returned"
    /\ srv.notes = {privateNote, publicNote}
    /\ buf[1].user = Guest /\ buf[1].uuid = 2
    /\ buf[1].ret.ok /\ buf[1].ret.note = publicNote

\* mergeBook is called in modeUpdate for the server's book b, whose uuid the
\* local book x has, and no other local book holds b's label
updateAlone(db, b, x, full) ==
    /\ ~db.err
    /\ x \in db.books /\ x.uuid = b.uuid
    /\ full => b.usn > x.usn
    /\ \A y \in db.books \ {x} : y.label # b.label

\* C25: the update path of a book merge changes only usn, uuid, label and
\* deleted of the one local book; its dirty flag stays as it was, and when no
\* other local book holds the server's label no other book changes. A server
\* copy with the label the local book has does not make the book dirty.
UpdatePathKeepsDirty ==
    pc = "merge" =>
       LET list == processFragments(buf)
       IN  \A b \in list.Books :
              \A d \in beforeMergeBook(tx, list, pullFull, b) :
                 \A x \in d.books :
                    updateAlone(d, b, x, pullFull) =>
                       LET r == IF pullFull THEN fullSyncBook(d, b)
                                ELSE stepSyncBook(d, b)
                       IN  /\ r.books \ {y \in r.books : y.uuid = b.uuid}
                              = d.books \ {x}
                           /\ [x EXCEPT !.usn = b.usn, !.label = b.label,
                                        !.deleted = b.deleted] \in r.books
                           /\ r.notes = d.notes

\* what the merge of the server's note n leaves of the local note x
mergedNote(db, n, x, full) ==
    LET over == [x EXCEPT !.usn = n.usn, !.book_uuid = n.book_uuid,
                          !.body = n.body, !.deleted = n.deleted]
    IN  IF full /\ ~(n.usn > x.usn) THEN x
        ELSE IF \E b \in db.books : b.uuid = x.book_uuid /\ b.deleted THEN x
        ELSE IF x.deleted THEN [over EXCEPT !.dirty = FALSE]
        ELSE over

\* C26: merging a server note into the local note of its uuid leaves the row
\* as it is when the note's book is deleted locally; else, when the local note
\* is deleted, overwrites it from the server and clears dirty; else overwrites
\* it and leaves dirty. A full sync merges only when server.usn > local.usn.
\* Nothing else in the store changes.
NoteMergeCases ==
    pc = "merge" =>
       LET list == processFragments(buf)
       IN  \A n \in list.Notes :
              \A d \in beforeMergeNote(tx, list, pullFull, n) :
                 \A x \in d.notes :
                    (~d.err /\ x.uuid = n.uuid) =>
                       LET r == IF pullFull THEN fullSyncNote(d, n)
                                ELSE stepSyncNote(d, n)
                       IN  /\ ~r.err
                           /\ r.notes = (d.notes \ {x}) \cup {mergedNote(d, n, x, pullFull)}
                           /\ r.books = d.books

\* a pull is about to merge a server note into a note that was removed
\* locally while its book is live
MergeMeetsRemovedNote ==
    /\ pc = "merge"
    /\ \E n \in processFragments(buf).Notes :
          \E x \in tx.notes :
             /\ x.uuid = n.uuid /\ x.deleted /\ x.dirty /\ n.usn > x.usn
             /\ \E b \in tx.books : b.uuid = x.book_uuid /\ ~b.deleted

\* the book of that uuid is named in the expunged books, is clean and has no
\* dirty note
bookGoes(db, list, uuid) ==
    /\ uuid \in list.ExpungedBooks
    /\ \E b \in db.books : b.uuid = uuid /\ ~b.dirty
    /\ \A n \in db.notes : n.book_uuid = uuid => ~n.dirty

\* C27: applying the expunged sets removes no dirty note, no dirty book and no
\* book that has a dirty note (such a book becomes dirty), and does nothing for
\* the uuids that are absent; every other row the sets name is removed, and
\* with a book all the notes whose book_uuid it is.
ExpungedSetsSpareDirtyRows ==
    pc = "merge" =>
       LET list == processFragments(buf)
       IN  \A d \in beforeExpunged(tx, list, pullFull) :
              ~d.err =>
                 \A r \in afterExpunged(d, list) :
                    /\ ~r.err
                    /\ r.notes =
                          {n \in d.notes :
                              \/ n.dirty
                              \/ /\ n.uuid \notin list.ExpungedNotes
                                 /\ ~bookGoes(d, list, n.book_uuid)}
                    /\ r.books =
                          {IF b.uuid \in list.ExpungedBooks THEN [b EXCEPT !.dirty = TRUE]
                           ELSE b : b \in {x \in d.books : ~bookGoes(d, list, x.uuid)}}

\* a pull is about to apply expunged sets that name a clean local book whose
\* notes are all clean, one of them a note the sets do not name
ExpungedSetsMeetRows ==
    /\ pc = "merge"
    /\ \E u \in processFragments(buf).ExpungedBooks :
          /\ \E b \in tx.books : b.uuid = u /\ ~b.dirty
          /\ \E n \in tx.notes : /\ n.book_uuid = u /\ ~n.dirty
                                  /\ n.uuid \notin processFragments(buf).ExpungedNotes
          /\ bookGoes(tx, processFragments(buf), u)

\* C28: the fetch loop asks for the caller's afterUSN first and for the
\* FragMaxUSN of the previous response afterwards, it ends with the first
\* response whose FragMaxUSN is 0 and not before, it ends for every server that
\* comes to answer FragMaxUSN = 0, and a failing call ends the pull with an
\* error and no list.
FetchLoopEndsOnFirstZero ==
    /\ [][(pc = "fetch" /\ buf' # buf /\ pc' # "idle") =>
            /\ buf' = Append(buf, GetSyncFragment(srv,
                          IF buf = <<>> THEN callerAfterUSN
                          ELSE buf[Len(buf)].FragMaxUSN))
            /\ pc' = IF buf'[Len(buf')].FragMaxUSN = 0 THEN "merge" ELSE "fetch"]_vars
    /\ [][(pc = "fetch" /\ pc' = "idle") =>
            /\ hist'.outcome = "error"
            /\ buf' = <<>>
            /\ tx' = disk /\ disk' = disk]_vars
    /\ [](pc = "fetch" => \A i \in 1..Len(buf) : buf[i].FragMaxUSN # 0)
    /\ [](pc = "merge" =>
            /\ Len(buf) >= 1
            /\ \A i \in 1..Len(buf) : buf[i].FragMaxUSN = 0 <=> i = Len(buf))
    /\ (pc = "fetch" ~> pc # "fetch")

\* the loop has ended with its third response, the server written meanwhile
FetchLoopEndedAfterThreeCalls ==
    /\ pc = "merge"
    /\ Len(buf) = 3
    /\ hist.others > 0
    /\ ~pullFull /\ tx.lastMaxUSN > 0

\* C29: when the migration has run on a store and a server whose labels are
\* unique, every local book with the label of a server book has that book's
\* uuid, the other books are as before, and every note is in the book it was
\* in, under that book's new uuid; for every order of the server's books and
\* every overlap of the server's uuids with the local ones.
MigrationKeepsNotesInBooks ==
    pc = "migrated" =>
       LET migrated(b) ==
               IF \E s \in srv.books : s.label = b.label
               THEN [b EXCEPT !.uuid = (CHOOSE s \in srv.books : s.label = b.label).uuid]
               ELSE b
           bookOf(n) == CHOOSE b \in disk.books : b.uuid = n.book_uuid
       IN  /\ tx.books = {migrated(b) : b \in disk.books}
           /\ tx.notes = {[n EXCEPT !.book_uuid = migrated(bookOf(n)).uuid] : n \in disk.notes}

\* when no server book has the uuid of a local book of another label, the
\* migration returns no error and ends with the books and notes as above
MigrationWithoutOverlap ==
    (\A s \in srv.books, b \in disk.books : s.uuid = b.uuid => s.label = b.label)
       => (pc # "failed" /\ MigrationKeepsNotesInBooks)

\* C30: the sync command reports success only when its transaction has been
\* committed; when the commit fails it returns an error.
SuccessMeansCommitted ==
    hist.outcome = "ok" => hist.committed

\* C31: the server makes at most one row for a locally created book or note,
\* whatever runs fail and are run again after CreateBook or CreateNote has
\* answered.
CreatedOnceOnServer ==
    hist.again = {}

\* C32: when a sync without a follow-up pull comes to its commit, no book and
\* no note of the transaction is dirty; while the push runs, the dirty rows
\* are the ones it has still to send, those the pull made dirty among them.
NoDirtyRowAtCommit ==
    /\ (pc = "commit" /\ ~followUp) => (dirtyBooks(tx) = {} /\ dirtyNotes(tx) = {})
    /\ pc = "books" => dirtyBooks(tx) = queue
    /\ pc = "notes" => (dirtyBooks(tx) = {} /\ dirtyNotes(tx) = queue)

\* a sync without a follow-up pull comes to its commit; its store had no
\* dirty row when it began, and it has sent rows that its pull made dirty
CommitAfterPushOfPulledDirt ==
    /\ pc = "commit" /\ ~followUp
    /\ dirtyBooks(hist.startDisk) = {} /\ dirtyNotes(hist.startDisk) = {}
    /\ hist.nresp > 0

\* C33: at every commit, every row of the server whose USN is above the
\* last_max_usn committed before and at most the last_max_usn now committed
\* came in a fragment of this sync or is the answer to a call of its push,
\* whatever other clients wrote between the calls.
CursorSkipsNoChange ==
    pc = "commit" =>
       \A x \in srv.books \cup srv.notes :
          (disk.lastMaxUSN < x.usn /\ x.usn <= tx.lastMaxUSN) => x.usn \in hist.seen

\* a sync comes to its commit after a follow-up pull: another client wrote
\* between two calls of the sync, the push went on past that row, and the row
\* is within the USNs the commit covers
CommitPastForeignChange ==
    /\ pc = "commit" /\ followUp
    /\ hist.others > 0
    /\ \E x \in srv.books \cup srv.notes :
          /\ x.usn = hist.pushEndUSN + 1
          /\ x.usn < respUSN
          /\ disk.lastMaxUSN < x.usn /\ x.usn <= tx.lastMaxUSN
====
